---- MODULE Spec2Model ----
(***************************************************************************)
(* Model of lib/CodeGen/RegisterPressure.cpp: the RegPressureTracker that  *)
(* walks the instructions of one basic block by advance() and recede() and *)
(* keeps the current and maximum pressure of every register pressure set,  *)
(* the live register sets and the live-in / live-out lists of the region.  *)
(*                                                                         *)
(* The target description (registers, overlaps, classes, weights, pressure *)
(* sets), the block and the live-interval oracle are inputs of the code;   *)
(* the model draws them from small sets.  Unsigned 32-bit counters are     *)
(* held as their two's-complement residue, so that 0 - 1 is the value -1   *)
(* that stands for 2^32 - 1; they are compared with UGt / UGe.             *)
(***************************************************************************)
EXTENDS Integers, Sequences, FiniteSets, TLC

\* ------------------------------------------------------------------ bounds

\* Longest block the model enumerates.
MaxLen == 2

\* Actions are disabled once a maximum-pressure counter exceeds this cap.
MaxPressure == 3

\* ------------------------------------------------- the target description

NoReg == 0
RAX == 1
EAX == 2
RSP == 3
V1 == 4
V2 == 5

PhysRegs == {RAX, EAX, RSP}
VirtRegs == {V1, V2}

\* TargetRegisterInfo::isVirtualRegister
isVirtualRegister(Reg) == Reg \in VirtRegs

\* TRI->getOverlaps(Reg): the register itself and every register sharing
\* storage with it.
getOverlaps(Reg) ==
  IF Reg \in {RAX, EAX} THEN {RAX, EAX} ELSE {Reg}

\* An isAllocatable that takes every physical register for allocatable.
isAllocatable_all(Reg) == Reg \in PhysRegs

\* RCI->isAllocatable(Reg)
isAllocatable(Reg) == Reg \in {RAX, EAX}

\* TRI->getNumRegPressureSets()
getNumRegPressureSets == 2

PSets == 0..(getNumRegPressureSets - 1)

\* TRI->getMinimalPhysRegClass(Reg) / MRI->getRegClass(Reg)
getRegClass(Reg) ==
  CASE Reg = RAX -> "GR64"
    [] Reg = EAX -> "GR32"
    [] Reg = RSP -> "GR64"
    [] Reg = V1 -> "VR"
    [] OTHER -> "GR32"

\* TRI->getRegClassWeight(RC).RegWeight
getRegClassWeight(RC) == IF RC = "GR64" THEN 2 ELSE 1

\* TRI->getRegClassPressureSets(RC)
getRegClassPressureSets(RC) == IF RC = "GR32" THEN {0, 1} ELSE {0}

\* ---------------------------------------------------- unsigned arithmetic

\* a > b on the unsigned values the residues a and b stand for.
UGt(a, b) ==
  IF (a < 0) = (b < 0) THEN a > b ELSE a < 0

UGe(a, b) == a = b \/ UGt(a, b)

\* ------------------------------------------------------- the instructions

Use(r) == [isReg |-> TRUE, reg |-> r, readsReg |-> TRUE, isDef |-> FALSE, isDead |-> FALSE]
Def(r) == [isReg |-> TRUE, reg |-> r, readsReg |-> FALSE, isDef |-> TRUE, isDead |-> FALSE]
DeadDef(r) == [isReg |-> TRUE, reg |-> r, readsReg |-> FALSE, isDef |-> TRUE, isDead |-> TRUE]
UseDef(r) == [isReg |-> TRUE, reg |-> r, readsReg |-> TRUE, isDef |-> TRUE, isDead |-> FALSE]
Imm == [isReg |-> FALSE, reg |-> NoReg, readsReg |-> FALSE, isDef |-> FALSE, isDead |-> FALSE]

MI(ops) == [isDebugValue |-> FALSE, ops |-> ops]
DbgValue(ops) == [isDebugValue |-> TRUE, ops |-> ops]

\* The instructions blocks are built from.
Instrs ==
  { DbgValue(<<Use(V1)>>),
    MI(<<Def(V1)>>),
    MI(<<Def(V2), Use(V1)>>),
    MI(<<Use(V2)>>),
    MI(<<Def(EAX), DeadDef(RAX)>>),
    MI(<<Use(RAX), DeadDef(EAX), DeadDef(RAX), DeadDef(V2), Imm, Use(RSP), Use(NoReg)>>) }

RECURSIVE SeqsUpTo(_)
SeqsUpTo(n) ==
  IF n = 0 THEN {<<>>}
  ELSE LET S == SeqsUpTo(n - 1)
       IN S \cup {Append(s, i) : s \in {x \in S : Len(x) = n - 1}, i \in Instrs}

reads(inst, Reg) == \E k \in 1..Len(inst.ops) :
  inst.ops[k].isReg /\ inst.ops[k].reg = Reg /\ inst.ops[k].readsReg

defines(inst, Reg) == \E k \in 1..Len(inst.ops) :
  inst.ops[k].isReg /\ inst.ops[k].reg = Reg /\ inst.ops[k].isDef

deadDefines(inst, Reg) == \E k \in 1..Len(inst.ops) :
  inst.ops[k].isReg /\ inst.ops[k].reg = Reg /\ inst.ops[k].isDef /\ inst.ops[k].isDead

\* A dead def is dead: no instruction reads the register, or one that
\* overlaps it, before the register is defined again.
wellFormed(block) ==
  \A i \in 1..Len(block) : \A j \in (i + 1)..Len(block) :
    \A r \in PhysRegs \cup VirtRegs :
      (/\ ~block[i].isDebugValue /\ ~block[j].isDebugValue
       /\ deadDefines(block[i], r)
       /\ \E a \in getOverlaps(r) : reads(block[j], a))
      => \/ \E a \in getOverlaps(r) : defines(block[i], a) /\ ~deadDefines(block[i], a)
         \/ \E k \in (i + 1)..(j - 1) :
              ~block[k].isDebugValue /\ \E a \in getOverlaps(r) : defines(block[k], a)

Blocks == {b \in SeqsUpTo(MaxLen) : wellFormed(b)}


\* ------------------------------------------------------------------ state

VARIABLES
  MBB,              \* the basic block: a sequence of instructions
  RequireIntervals, \* TRUE: IntervalPressure result, FALSE: RegionPressure
  NDEBUG,           \* TRUE: assertions are compiled out
  BlockLiveOut,     \* virtual registers live out of the block (LiveIntervals)
  CurrPos,          \* cursor: 1..Len(MBB), or Len(MBB)+1 for MBB->end()
  CurrSetPressure,
  MaxSetPressure,   \* P.MaxSetPressure
  LiveInRegs,       \* P.LiveInRegs
  LiveOutRegs,      \* P.LiveOutRegs
  Top,              \* P.TopIdx / P.TopPos
  Bottom,           \* P.BottomIdx / P.BottomPos
  LivePhysRegs,
  LiveVirtRegs,
  aborted,          \* the process died in an assertion or a wild read
  traversal         \* what a client comparing two traversals has seen of them

vars ==
  <<MBB, RequireIntervals, NDEBUG, BlockLiveOut, CurrPos, CurrSetPressure,
    MaxSetPressure, LiveInRegs, LiveOutRegs, Top, Bottom, LivePhysRegs,
    LiveVirtRegs, aborted, traversal>>

\* A client that compares nothing.
NoTraversal ==
  [phase |-> "none", dir |-> "none", start |-> 0, first |-> <<>>, second |-> <<>>]

\* SlotIndex() and MachineBasicBlock::const_iterator(): the null mark.
Null == 0

begin == 1
end == Len(MBB) + 1

\* The tracker and its result as one value; ret is the value the last call
\* of advance() or recede() returned, underflow and inconsistent tell whether
\* the call met the condition its "register pressure underflow" or
\* "inconsistent max pressure result" assertion guards against.
Tracker ==
  [CurrPos |-> CurrPos, CurrSetPressure |-> CurrSetPressure,
   MaxSetPressure |-> MaxSetPressure, LiveInRegs |-> LiveInRegs,
   LiveOutRegs |-> LiveOutRegs, Top |-> Top, Bottom |-> Bottom,
   LivePhysRegs |-> LivePhysRegs, LiveVirtRegs |-> LiveVirtRegs,
   aborted |-> aborted, ret |-> TRUE, underflow |-> FALSE,
   inconsistent |-> FALSE]

Abort(t) == [t EXCEPT !.aborted = TRUE]

\* The tracker and its result alone, without what is recorded of the call.
state(t) == [t EXCEPT !.underflow = FALSE, !.inconsistent = FALSE]

\* assert(cond): aborts when it fails, unless compiled out.
assertion(t, cond) ==
  IF t.aborted \/ cond \/ NDEBUG THEN t ELSE Abort(t)

\* ------------------------------------------------ the live-interval oracle

\* LIS->getInstructionIndex(pos).getRegSlot() for an instruction in the maps.
getRegSlot(pos) == 4 * pos + 2

\* LIS->getMBBEndIdx(MBB)
getMBBEndIdx == 4 * end

\* Debug values and MBB->end() have no slot index.
hasIndex(pos) == pos \in 1..Len(MBB) /\ ~MBB[pos].isDebugValue

\* What a lookup of an instruction that is not in the maps can give in a
\* build without assertions: Null stands for the process dying in the read.
JunkIdx == {Null, getMBBEndIdx} \cup {getRegSlot(i) : i \in {k \in 1..Len(MBB) : hasIndex(k)}}

\* LIS->getInstructionIndex(CurrPos).getRegSlot(): undefined for a position
\* without an index (assertion "Instruction not found in maps", else junk).
getInstructionIndex(pos, junk) == IF hasIndex(pos) THEN getRegSlot(pos) ELSE junk

indexLookup(t, pos, junk) ==
  IF hasIndex(pos) THEN t
  ELSE IF NDEBUG /\ junk # Null THEN t ELSE Abort(t)

\* The live range of Reg that is read by instruction i ends at i.
killsAt(Reg, i) ==
  /\ hasIndex(i)
  /\ reads(MBB[i], Reg)
  /\ \/ defines(MBB[i], Reg)
     \/ LET later == {j \in (i + 1)..Len(MBB) :
                        hasIndex(j) /\ (reads(MBB[j], Reg) \/ defines(MBB[j], Reg))}
        IN IF later = {} THEN Reg \notin BlockLiveOut
           ELSE LET j == CHOOSE x \in later : \A y \in later : x <= y
                IN ~reads(MBB[j], Reg)

\* LIS->getInterval(Reg).killedAt(SlotIdx)
killedAt(Reg, SlotIdx) ==
  \/ \E i \in 1..Len(MBB) : getRegSlot(i) = SlotIdx /\ killsAt(Reg, i)
  \/ SlotIdx = getMBBEndIdx /\ Reg \in BlockLiveOut

\* ------------------------------------------------ pressure-set accumulator

\* increaseSetPressure storing the current pressure as the maximum without
\* comparing the two.
increaseSetPressure_alwaysStore(CurrSet, MaxSet, RC) ==
  LET Weight == getRegClassWeight(RC)
      PS == getRegClassPressureSets(RC)
      C == [p \in PSets |-> IF p \in PS THEN CurrSet[p] + Weight ELSE CurrSet[p]]
  IN [curr |-> C,
      max |-> [p \in PSets |-> IF p \in PS THEN C[p] ELSE MaxSet[p]]]

\* increaseSetPressure: the new current and maximum vectors.
increaseSetPressure(CurrSet, MaxSet, RC) ==
  LET Weight == getRegClassWeight(RC)
      PS == getRegClassPressureSets(RC)
      C == [p \in PSets |-> IF p \in PS THEN CurrSet[p] + Weight ELSE CurrSet[p]]
  IN [curr |-> C,
      max |-> [p \in PSets |->
                 IF p \in PS /\ UGt(C[p], MaxSet[p]) THEN C[p] ELSE MaxSet[p]]]

\* The assertion of decreaseSetPressure: no counter underflows.
noUnderflow(CurrSet, RC) ==
  \A p \in getRegClassPressureSets(RC) : UGe(CurrSet[p], getRegClassWeight(RC))

\* decreaseSetPressure: the new current vector (wrapping when the assertion
\* is compiled out).
decreaseSetPressure(CurrSet, RC) ==
  [p \in PSets |->
     IF p \in getRegClassPressureSets(RC)
     THEN CurrSet[p] - getRegClassWeight(RC) ELSE CurrSet[p]]

\* RegisterPressure::increase: increaseSetPressure with the maximum vector
\* passed as both arguments.
increase(MaxSet, RC) == increaseSetPressure(MaxSet, MaxSet, RC).curr

increaseReg(t, Reg) ==
  LET r == increaseSetPressure(t.CurrSetPressure, t.MaxSetPressure, getRegClass(Reg))
  IN IF t.aborted THEN t
     ELSE [t EXCEPT !.CurrSetPressure = r.curr, !.MaxSetPressure = r.max]

decreaseReg(t, Reg) ==
  LET ok == noUnderflow(t.CurrSetPressure, getRegClass(Reg))
      a == assertion([t EXCEPT !.underflow = @ \/ ~ok], ok)
  IN IF t.aborted THEN t
     ELSE IF a.aborted THEN a
     ELSE [a EXCEPT !.CurrSetPressure =
                      decreaseSetPressure(t.CurrSetPressure, getRegClass(Reg))]

RECURSIVE increaseRegs(_, _)
increaseRegs(t, Regs) ==
  IF Regs = <<>> THEN t ELSE increaseRegs(increaseReg(t, Head(Regs)), Tail(Regs))

RECURSIVE decreaseRegs(_, _)
decreaseRegs(t, Regs) ==
  IF Regs = <<>> THEN t ELSE decreaseRegs(decreaseReg(t, Head(Regs)), Tail(Regs))

increasePhysRegPressure(t, Regs) == increaseRegs(t, Regs)
decreasePhysRegPressure(t, Regs) == decreaseRegs(t, Regs)
increaseVirtRegPressure(t, Regs) == increaseRegs(t, Regs)
decreaseVirtRegPressure(t, Regs) == decreaseRegs(t, Regs)

\* ------------------------------------------------------------ alias oracle

\* hasRegAlias looking for Reg itself only, not for what overlaps it.
hasRegAlias_identity(Reg, Regs) == Reg \in Regs

\* hasRegAlias: some register overlapping Reg is in the sparse set Regs.
hasRegAlias(Reg, Regs) == \E Alias \in getOverlaps(Reg) : Alias \in Regs

\* findRegAlias(Reg, Regs) != Regs.end()
findRegAlias(Reg, Regs) ==
  \E Alias \in getOverlaps(Reg) : \E i \in 1..Len(Regs) : Regs[i] = Alias

\* findReg(Reg, isVReg, Regs) != Regs.end()
findReg(Reg, isVReg, Regs) ==
  IF isVReg THEN \E i \in 1..Len(Regs) : Regs[i] = Reg
  ELSE findRegAlias(Reg, Regs)

\* ------------------------------------------------------ operand classifier

RegisterOperands == [Uses |-> <<>>, Defs |-> <<>>, DeadDefs |-> <<>>]

\* RegisterOperands<isVReg>::collect
collect(RO, MO, isVReg) ==
  LET U == IF MO.readsReg /\ ~findReg(MO.reg, isVReg, RO.Uses)
           THEN Append(RO.Uses, MO.reg) ELSE RO.Uses
      DD == IF MO.isDef /\ MO.isDead /\ ~findReg(MO.reg, isVReg, RO.DeadDefs)
            THEN Append(RO.DeadDefs, MO.reg) ELSE RO.DeadDefs
      D == IF MO.isDef /\ ~MO.isDead /\ ~findReg(MO.reg, isVReg, RO.Defs)
           THEN Append(RO.Defs, MO.reg) ELSE RO.Defs
  IN [Uses |-> U, Defs |-> D, DeadDefs |-> DD]

RECURSIVE collectLoop(_, _)
collectLoop(ops, acc) ==
  IF ops = <<>> THEN acc
  ELSE LET MO == Head(ops)
           next ==
             IF ~MO.isReg \/ MO.reg = NoReg THEN acc
             ELSE IF isVirtualRegister(MO.reg)
               THEN [acc EXCEPT !.Virt = collect(acc.Virt, MO, TRUE)]
             ELSE IF isAllocatable(MO.reg)
               THEN [acc EXCEPT !.Phys = collect(acc.Phys, MO, FALSE)]
             ELSE acc
       IN collectLoop(Tail(ops), next)

\* collectOperands without its loop over the physical dead defs.
pruneDeadDefs_none(DeadDefs, Defs) == DeadDefs

\* The loop "Remove redundant physreg dead defs" of collectOperands.
pruneDeadDefs(DeadDefs, Defs) ==
  SelectSeq(DeadDefs, LAMBDA Reg : ~findRegAlias(Reg, Defs))

\* collectOperands: [Phys |-> PhysRegOpers, Virt |-> VirtRegOpers]
collectOperands(inst) ==
  LET r == collectLoop(inst.ops, [Phys |-> RegisterOperands, Virt |-> RegisterOperands])
  IN [r EXCEPT !.Phys.DeadDefs = pruneDeadDefs(r.Phys.DeadDefs, r.Phys.Defs)]

\* ------------------------------------------- region result, boundary logic

Range(s) == {s[i] : i \in 1..Len(s)}

\* std::sort followed by erase(std::unique): the ascending sequence of S.
RECURSIVE sortUnique(_)
sortUnique(S) ==
  IF S = {} THEN <<>>
  ELSE LET m == CHOOSE x \in S : \A y \in S : x <= y
       IN <<m>> \o sortUnique(S \ {m})

\* IntervalPressure::openTop
IntervalPressure_openTop(t, NextTop) ==
  IF t.aborted \/ t.Top <= NextTop THEN t
  ELSE [t EXCEPT !.Top = Null, !.LiveInRegs = <<>>]

\* RegionPressure::openTop
RegionPressure_openTop(t, PrevTop) ==
  IF t.aborted \/ t.Top # PrevTop THEN t
  ELSE [t EXCEPT !.Top = Null, !.LiveInRegs = <<>>]

\* IntervalPressure::openBottom
IntervalPressure_openBottom(t, PrevBottom) ==
  IF t.aborted \/ t.Bottom > PrevBottom THEN t
  ELSE [t EXCEPT !.Bottom = Null, !.LiveInRegs = <<>>]

\* RegionPressure::openBottom
RegionPressure_openBottom(t, PrevBottom) ==
  IF t.aborted \/ t.Bottom # PrevBottom THEN t
  ELSE [t EXCEPT !.Bottom = Null, !.LiveInRegs = <<>>]

\* RegPressureTracker::isTopClosed
isTopClosed(t) ==
  IF RequireIntervals THEN t.Top # Null ELSE t.Top = Null

\* RegPressureTracker::isBottomClosed
isBottomClosed(t) ==
  IF RequireIntervals THEN t.Bottom # Null ELSE t.Bottom = Null

\* RegPressureTracker::closeTop
closeTop(t, junk) ==
  LET a == IF RequireIntervals THEN indexLookup(t, t.CurrPos, junk) ELSE t
      b == [a EXCEPT !.Top = IF RequireIntervals
                              THEN getInstructionIndex(t.CurrPos, junk)
                              ELSE t.CurrPos]
      c == assertion([b EXCEPT !.inconsistent = @ \/ b.LiveInRegs # <<>>],
                     b.LiveInRegs = <<>>)
  IN IF t.aborted THEN t
     ELSE IF a.aborted THEN a
     ELSE IF c.aborted THEN c
     ELSE [c EXCEPT !.LiveInRegs =
             sortUnique(Range(c.LiveInRegs) \cup c.LivePhysRegs \cup c.LiveVirtRegs)]

\* RegPressureTracker::closeBottom
closeBottom(t, junk) ==
  LET atEnd == t.CurrPos = end
      a == IF RequireIntervals /\ ~atEnd THEN indexLookup(t, t.CurrPos, junk) ELSE t
      b == [a EXCEPT !.Bottom = IF RequireIntervals
                                 THEN (IF atEnd THEN getMBBEndIdx
                                       ELSE getInstructionIndex(t.CurrPos, junk))
                                 ELSE t.CurrPos]
      c == assertion([b EXCEPT !.inconsistent = @ \/ b.LiveOutRegs # <<>>],
                     b.LiveOutRegs = <<>>)
  IN IF t.aborted THEN t
     ELSE IF a.aborted THEN a
     ELSE IF c.aborted THEN c
     ELSE [c EXCEPT !.LiveOutRegs =
             sortUnique(Range(c.LiveOutRegs) \cup c.LivePhysRegs \cup c.LiveVirtRegs)]

\* RegPressureTracker::closeRegion
closeRegion(t, junk) ==
  IF t.aborted THEN t
  ELSE IF ~isTopClosed(t) /\ ~isBottomClosed(t)
    THEN assertion(t, t.LivePhysRegs = {} /\ t.LiveVirtRegs = {})
  ELSE IF ~isBottomClosed(t) THEN closeBottom(t, junk)
  ELSE IF ~isTopClosed(t) THEN closeTop(t, junk)
  ELSE t

\* --------------------------------------------- live-in/live-out discovery

\* RegPressureTracker::discoverPhysLiveIn
discoverPhysLiveIn(t, Reg) ==
  LET a == assertion(t, Reg \notin t.LivePhysRegs)
  IN IF a.aborted THEN a
     ELSE IF ~findRegAlias(Reg, a.LiveInRegs) THEN a
     ELSE [a EXCEPT !.LiveInRegs = Append(a.LiveInRegs, Reg),
                    !.MaxSetPressure = increase(a.MaxSetPressure, getRegClass(Reg))]

\* RegPressureTracker::discoverPhysLiveOut
discoverPhysLiveOut(t, Reg) ==
  LET a == assertion(t, Reg \notin t.LivePhysRegs)
  IN IF a.aborted THEN a
     ELSE IF ~findRegAlias(Reg, a.LiveOutRegs) THEN a
     ELSE [a EXCEPT !.LiveOutRegs = Append(a.LiveOutRegs, Reg),
                    !.MaxSetPressure = increase(a.MaxSetPressure, getRegClass(Reg))]

\* RegPressureTracker::discoverVirtLiveIn
discoverVirtLiveIn(t, Reg) ==
  LET a == assertion(t, Reg \notin t.LiveVirtRegs)
  IN IF a.aborted THEN a
     ELSE IF Reg \in Range(a.LiveInRegs) THEN a
     ELSE [a EXCEPT !.LiveInRegs = Append(a.LiveInRegs, Reg),
                    !.MaxSetPressure = increase(a.MaxSetPressure, getRegClass(Reg))]

\* RegPressureTracker::discoverVirtLiveOut
discoverVirtLiveOut(t, Reg) ==
  LET a == assertion(t, Reg \notin t.LiveVirtRegs)
  IN IF a.aborted THEN a
     ELSE IF Reg \in Range(a.LiveOutRegs) THEN a
     ELSE [a EXCEPT !.LiveOutRegs = Append(a.LiveOutRegs, Reg),
                    !.MaxSetPressure = increase(a.MaxSetPressure, getRegClass(Reg))]

\* ----------------------------------------------------------- dead-def bump

\* "Boost pressure for all dead defs together": the four calls of recede()
\* and advance().
bumpDeadDefs(t, opers) ==
  decreaseVirtRegPressure(
    decreasePhysRegPressure(
      increaseVirtRegPressure(
        increasePhysRegPressure(t, opers.Phys.DeadDefs),
        opers.Virt.DeadDefs),
      opers.Phys.DeadDefs),
    opers.Virt.DeadDefs)

\* ------------------------------------------------------------------ recede

\* recede(): "Find the previous instruction".
RECURSIVE prevPos(_)
prevPos(pos) ==
  LET p == pos - 1
  IN IF p # begin /\ MBB[p].isDebugValue THEN prevPos(p) ELSE p

\* recede(): one live physical def.
recedePhysDef(t, Reg) ==
  IF t.aborted THEN t
  ELSE IF Reg \in t.LivePhysRegs
    THEN decreasePhysRegPressure(
           [t EXCEPT !.LivePhysRegs = t.LivePhysRegs \ {Reg}], <<Reg>>)
  ELSE discoverPhysLiveOut(t, Reg)

\* recede(): one live virtual def.
recedeVirtDef(t, Reg) ==
  IF t.aborted THEN t
  ELSE IF Reg \in t.LiveVirtRegs
    THEN decreaseVirtRegPressure(
           [t EXCEPT !.LiveVirtRegs = t.LiveVirtRegs \ {Reg}], <<Reg>>)
  ELSE discoverVirtLiveOut(t, Reg)

\* recede(): one physical use.
recedePhysUse(t, Reg) ==
  IF t.aborted \/ hasRegAlias(Reg, t.LivePhysRegs) THEN t
  ELSE LET a == increasePhysRegPressure(t, <<Reg>>)
       IN [a EXCEPT !.LivePhysRegs = a.LivePhysRegs \cup {Reg}]

\* recede(): one virtual use.
recedeVirtUse(t, Reg, SlotIdx) ==
  IF t.aborted \/ Reg \in t.LiveVirtRegs THEN t
  ELSE LET a == IF RequireIntervals /\ ~killedAt(Reg, SlotIdx)
                THEN discoverVirtLiveOut(t, Reg) ELSE t
           b == increaseVirtRegPressure(a, <<Reg>>)
       IN IF b.aborted THEN b
          ELSE [b EXCEPT !.LiveVirtRegs = b.LiveVirtRegs \cup {Reg}]

RECURSIVE recedePhysDefs(_, _)
recedePhysDefs(t, Regs) ==
  IF Regs = <<>> THEN t
  ELSE recedePhysDefs(recedePhysDef(t, Head(Regs)), Tail(Regs))

RECURSIVE recedeVirtDefs(_, _)
recedeVirtDefs(t, Regs) ==
  IF Regs = <<>> THEN t
  ELSE recedeVirtDefs(recedeVirtDef(t, Head(Regs)), Tail(Regs))

RECURSIVE recedePhysUses(_, _)
recedePhysUses(t, Regs) ==
  IF Regs = <<>> THEN t
  ELSE recedePhysUses(recedePhysUse(t, Head(Regs)), Tail(Regs))

RECURSIVE recedeVirtUses(_, _, _)
recedeVirtUses(t, Regs, SlotIdx) ==
  IF Regs = <<>> THEN t
  ELSE recedeVirtUses(recedeVirtUse(t, Head(Regs), SlotIdx), Tail(Regs), SlotIdx)

\* recede(): "Open the top of the region using slot indexes".
recedeOpenTop(t) ==
  IF RequireIntervals /\ isTopClosed(t)
  THEN IntervalPressure_openTop(t, getRegSlot(t.CurrPos)) ELSE t

\* recede(): the classified operands opers of the instruction at the cursor.
recedeOpers(t, opers) ==
  LET SlotIdx == getRegSlot(t.CurrPos)
      b == bumpDeadDefs(t, opers)
      c == recedeVirtDefs(recedePhysDefs(b, opers.Phys.Defs), opers.Virt.Defs)
      d == recedeVirtUses(recedePhysUses(c, opers.Phys.Uses), opers.Virt.Uses, SlotIdx)
  IN [d EXCEPT !.ret = TRUE]

\* recede(): everything after the cursor has reached a real instruction.
recedeInstr(t) ==
  recedeOpers(recedeOpenTop(t), collectOperands(MBB[t.CurrPos]))

\* recede(): the boundary handling and the cursor step; t.CurrPos is not
\* the block's begin.
recedeBoundary(t, junk) ==
  LET a == IF ~isBottomClosed(t) THEN closeBottom(t, junk) ELSE t
      b == IF ~RequireIntervals /\ isTopClosed(a)
           THEN RegionPressure_openTop(a, a.CurrPos) ELSE a
  IN IF b.aborted THEN b ELSE [b EXCEPT !.CurrPos = prevPos(t.CurrPos)]

\* RegPressureTracker::recede
recede(t, junk) ==
  IF t.aborted THEN t
  ELSE IF t.CurrPos = begin
    THEN [closeRegion(t, junk) EXCEPT !.ret = FALSE]
  ELSE LET c == recedeBoundary(t, junk)
       IN IF c.aborted THEN c
          ELSE IF MBB[c.CurrPos].isDebugValue
            THEN [closeRegion(c, junk) EXCEPT !.ret = FALSE]
          ELSE recedeInstr(c)

\* ----------------------------------------------------------------- advance

\* advance(): "Find the next instruction".
RECURSIVE nextPos(_)
nextPos(pos) ==
  LET p == pos + 1
  IN IF p # end /\ MBB[p].isDebugValue THEN nextPos(p) ELSE p

\* advance(): one physical use.
advancePhysUse(t, Reg) ==
  IF t.aborted THEN t
  ELSE IF ~hasRegAlias(Reg, t.LivePhysRegs) THEN discoverPhysLiveIn(t, Reg)
  ELSE LET a == decreasePhysRegPressure(t, <<Reg>>)
       IN IF a.aborted THEN a
          ELSE [a EXCEPT !.LivePhysRegs = a.LivePhysRegs \ {Reg}]

\* advance() over one virtual use that never asks the live intervals whether
\* the use is a kill.
advanceVirtUse_noIntervals(t, Reg, SlotIdx) ==
  IF t.aborted THEN t
  ELSE IF Reg \notin t.LiveVirtRegs
    THEN increaseVirtRegPressure(discoverVirtLiveIn(t, Reg), <<Reg>>)
  ELSE t

\* advance(): one virtual use.
advanceVirtUse(t, Reg, SlotIdx) ==
  IF t.aborted THEN t
  ELSE IF RequireIntervals
    THEN IF killedAt(Reg, SlotIdx)
         THEN IF Reg \in t.LiveVirtRegs
              THEN decreaseVirtRegPressure(
                     [t EXCEPT !.LiveVirtRegs = t.LiveVirtRegs \ {Reg}], <<Reg>>)
              ELSE discoverVirtLiveIn(t, Reg)
         ELSE t
  ELSE IF Reg \notin t.LiveVirtRegs
    THEN increaseVirtRegPressure(discoverVirtLiveIn(t, Reg), <<Reg>>)
  ELSE t

\* advance(): one live physical def.
advancePhysDef(t, Reg) ==
  IF t.aborted \/ hasRegAlias(Reg, t.LivePhysRegs) THEN t
  ELSE LET a == increasePhysRegPressure(t, <<Reg>>)
       IN [a EXCEPT !.LivePhysRegs = a.LivePhysRegs \cup {Reg}]

\* advance(): one live virtual def.
advanceVirtDef(t, Reg) ==
  IF t.aborted \/ Reg \in t.LiveVirtRegs THEN t
  ELSE increaseVirtRegPressure(
         [t EXCEPT !.LiveVirtRegs = t.LiveVirtRegs \cup {Reg}], <<Reg>>)

RECURSIVE advancePhysUses(_, _)
advancePhysUses(t, Regs) ==
  IF Regs = <<>> THEN t
  ELSE advancePhysUses(advancePhysUse(t, Head(Regs)), Tail(Regs))

RECURSIVE advanceVirtUses(_, _, _)
advanceVirtUses(t, Regs, SlotIdx) ==
  IF Regs = <<>> THEN t
  ELSE advanceVirtUses(advanceVirtUse(t, Head(Regs), SlotIdx), Tail(Regs), SlotIdx)

RECURSIVE advancePhysDefs(_, _)
advancePhysDefs(t, Regs) ==
  IF Regs = <<>> THEN t
  ELSE advancePhysDefs(advancePhysDef(t, Head(Regs)), Tail(Regs))

RECURSIVE advanceVirtDefs(_, _)
advanceVirtDefs(t, Regs) ==
  IF Regs = <<>> THEN t
  ELSE advanceVirtDefs(advanceVirtDef(t, Head(Regs)), Tail(Regs))

\* advance(): the boundary handling before the operands are classified.
advanceBoundary(t, junk) ==
  LET a == IF ~isTopClosed(t) THEN closeTop(t, junk) ELSE t
      b == IF RequireIntervals THEN indexLookup(a, a.CurrPos, junk) ELSE a
      SlotIdx == getInstructionIndex(t.CurrPos, junk)
  IN IF b.aborted \/ ~isBottomClosed(b) THEN b
     ELSE IF RequireIntervals THEN IntervalPressure_openBottom(b, SlotIdx)
     ELSE RegionPressure_openBottom(b, b.CurrPos)

\* advance(): the classified operands opers of the current instruction and
\* the cursor step.
advanceOpers(t, opers, junk) ==
  LET SlotIdx == getInstructionIndex(t.CurrPos, junk)
      a == advanceVirtUses(advancePhysUses(t, opers.Phys.Uses), opers.Virt.Uses, SlotIdx)
      b == advanceVirtDefs(advancePhysDefs(a, opers.Phys.Defs), opers.Virt.Defs)
      c == bumpDeadDefs(b, opers)
  IN IF c.aborted THEN c
     ELSE [c EXCEPT !.CurrPos = nextPos(t.CurrPos), !.ret = TRUE]

advanceInstr(t, junk) ==
  IF t.aborted THEN t
  ELSE advanceOpers(t, collectOperands(MBB[t.CurrPos]), junk)

\* RegPressureTracker::advance
advance(t, junk) ==
  IF t.aborted THEN t
  ELSE IF t.CurrPos = end
    THEN [closeRegion(t, junk) EXCEPT !.ret = FALSE]
  ELSE advanceInstr(advanceBoundary(t, junk), junk)

\* -------------------------------------------------------------------- init

\* init(): "while (CurrPos != MBB->end() && CurrPos->isDebugValue()) ++CurrPos"
RECURSIVE skipDebug(_, _)
skipDebug(block, pos) ==
  IF pos # Len(block) + 1 /\ block[pos].isDebugValue
  THEN skipDebug(block, pos + 1) ELSE pos

\* The tracker init(..., pos) leaves for the block MBB.
initTracker(pos) ==
  [CurrPos |-> skipDebug(MBB, pos),
   CurrSetPressure |-> [p \in PSets |-> 0],
   MaxSetPressure |-> [p \in PSets |-> 0],
   LiveInRegs |-> <<>>, LiveOutRegs |-> <<>>, Top |-> Null, Bottom |-> Null,
   LivePhysRegs |-> {}, LiveVirtRegs |-> {}, aborted |-> FALSE, ret |-> TRUE,
   underflow |-> FALSE, inconsistent |-> FALSE]

\* The liveness the LiveIntervals analysis may report at the block's end.
LiveOutChoices == {{}, {V1}}

\* RegPressureTracker::init
Init ==
  /\ MBB \in Blocks
  /\ RequireIntervals \in BOOLEAN
  /\ NDEBUG \in BOOLEAN
  /\ BlockLiveOut \in (IF RequireIntervals THEN LiveOutChoices ELSE {{}})
  /\ \E pos \in 1..(Len(MBB) + 1) : CurrPos = skipDebug(MBB, pos)
  /\ CurrSetPressure = [p \in PSets |-> 0]
  /\ MaxSetPressure = [p \in PSets |-> 0]
  /\ LiveInRegs = <<>>
  /\ LiveOutRegs = <<>>
  /\ Top = Null
  /\ Bottom = Null
  /\ LivePhysRegs = {}
  /\ LiveVirtRegs = {}
  /\ aborted = FALSE
  /\ traversal = NoTraversal

\* ----------------------------------------------------------------- actions

\* The tracker after a call that left it as t.
Assign(t) ==
  /\ CurrPos' = t.CurrPos
  /\ CurrSetPressure' = t.CurrSetPressure
  /\ MaxSetPressure' = t.MaxSetPressure
  /\ LiveInRegs' = t.LiveInRegs
  /\ LiveOutRegs' = t.LiveOutRegs
  /\ Top' = t.Top
  /\ Bottom' = t.Bottom
  /\ LivePhysRegs' = t.LivePhysRegs
  /\ LiveVirtRegs' = t.LiveVirtRegs
  /\ aborted' = t.aborted
  /\ UNCHANGED <<RequireIntervals, NDEBUG, BlockLiveOut>>

\* The state after a call that left the tracker as t.
Becomes(t) == Assign(t) /\ UNCHANGED <<MBB, traversal>>

\* The client goes on calling while the process lives and the counters are
\* within the model's cap.
Running ==
  /\ ~aborted
  /\ \A p \in PSets : MaxSetPressure[p] \in 0..MaxPressure

\* The junk a call can read: only the interval variant looks up indexes, and
\* a lookup fails only for the cursor's position, or for a debug value at
\* the block's begin that recede() stops at.
Junk ==
  IF RequireIntervals /\ (~hasIndex(CurrPos) \/ (MBB # <<>> /\ MBB[1].isDebugValue))
  THEN JunkIdx ELSE {Null}

Advance == Running /\ \E junk \in Junk : Becomes(advance(Tracker, junk))

Recede == Running /\ \E junk \in Junk : Becomes(recede(Tracker, junk))

CloseTop == Running /\ \E junk \in Junk : Becomes(closeTop(Tracker, junk))

CloseBottom == Running /\ \E junk \in Junk : Becomes(closeBottom(Tracker, junk))

CloseRegion == Running /\ \E junk \in Junk : Becomes(closeRegion(Tracker, junk))

Next == Advance \/ Recede \/ CloseTop \/ CloseBottom \/ CloseRegion

Spec == Init /\ [][Next]_vars

\* ------------------------------------------------------------ the claims

\* The sum over the registers Regs of weight(class(r)) for those whose class
\* lists pressure set p.
RECURSIVE liveWeight(_, _)
liveWeight(Regs, p) ==
  IF Regs = {} THEN 0
  ELSE LET r == CHOOSE x \in Regs : TRUE
           RC == getRegClass(r)
       IN (IF p \in getRegClassPressureSets(RC) THEN getRegClassWeight(RC) ELSE 0)
          + liveWeight(Regs \ {r}, p)

\* C1: after init and after every call of advance(), recede(), closeTop(),
\* closeBottom() or closeRegion() that returned, every counter of the
\* current pressure vector is the summed class weight of the live registers
\* (physical and virtual) whose class lists that pressure set.
C1_CurrPressureIsLiveSum ==
  ~aborted =>
    \A p \in PSets :
      CurrSetPressure[p] = liveWeight(LivePhysRegs \cup LiveVirtRegs, p)

\* C3: after init and after every public operation that returned, the
\* maximum pressure of every pressure set is at least its current pressure.
C3_MaxAtLeastCurr ==
  ~aborted => \A p \in PSets : UGe(MaxSetPressure[p], CurrSetPressure[p])

\* A list is ascending without duplicates and holds no two physical
\* registers that overlap.
sortedAliasUnique(Regs) ==
  /\ \A i, j \in 1..Len(Regs) : i < j => Regs[i] < Regs[j]
  /\ \A i, j \in 1..Len(Regs) :
       (i # j /\ ~isVirtualRegister(Regs[i]) /\ ~isVirtualRegister(Regs[j]))
         => Regs[j] \notin getOverlaps(Regs[i])

\* C4: after every public operation that returned, the live-in list and the
\* live-out list are ascending, duplicate-free and hold no two overlapping
\* physical registers, also after live-in/live-out discovery appended to
\* them.
C4_ListsSortedAliasUnique ==
  ~aborted => sortedAliasUnique(LiveInRegs) /\ sortedAliasUnique(LiveOutRegs)

\* C5: LivePhysRegs never holds two distinct physical registers that
\* overlap.
C5_LivePhysAliasFree ==
  \A r1, r2 \in LivePhysRegs : r1 # r2 => r2 \notin getOverlaps(r1)

\* C5 witness: advance() ran over a live def of EAX while the overlapping
\* RAX was live (top closed at the first instruction, cursor behind it), and
\* RAX alone is live.
C5_Witness ==
  /\ ~aborted
  /\ RequireIntervals
  /\ Len(MBB) >= 1
  /\ CurrPos = 2
  /\ Top = getRegSlot(1)
  /\ EAX \in Range(collectOperands(MBB[1]).Phys.Defs)
  /\ LivePhysRegs = {RAX}

\* C6: isTopClosed() (isBottomClosed()) is true exactly when the top
\* (bottom) boundary holds a mark, in both variants.
C6_ClosedIffMarked ==
  ~aborted =>
    /\ isTopClosed(Tracker) <=> (Top # Null)
    /\ isBottomClosed(Tracker) <=> (Bottom # Null)

\* advance() called until the cursor has reached position j.
RECURSIVE advanceTo(_, _)
advanceTo(t, j) ==
  IF t.aborted \/ t.CurrPos >= j THEN t ELSE advanceTo(advance(t, Null), j)

\* recede() called until the cursor has reached position i.
RECURSIVE recedeTo(_, _)
recedeTo(t, i) ==
  IF t.aborted \/ t.CurrPos <= i THEN t ELSE recedeTo(recede(t, Null), i)

\* The region [i, j) traversed downwards and upwards, each from a fresh
\* init and followed by closeRegion().
traverseDown(i, j) == closeRegion(advanceTo(initTracker(i), j), Null)
traverseUp(i, j) == closeRegion(recedeTo(initTracker(j), i), Null)

\* C2: for every region of the block, once the tracker has traversed it by
\* advance() alone from its top and closed it, the maximum pressure, the
\* live-in list and the live-out list are those the traversal by recede()
\* alone from its bottom, closed, gives.
C2_AdvanceRecedeAgree ==
  \A i \in 1..end : \A j \in i..end :
    LET A == traverseDown(i, j)
        R == traverseUp(i, j)
    IN (/\ i = skipDebug(MBB, i) /\ j = skipDebug(MBB, j)
        /\ ~A.aborted /\ ~R.aborted
        /\ A.CurrPos = j /\ R.CurrPos = i
        /\ Tracker = state([A EXCEPT !.ret = TRUE]))
       => /\ A.MaxSetPressure = R.MaxSetPressure
          /\ A.LiveInRegs = R.LiveInRegs
          /\ A.LiveOutRegs = R.LiveOutRegs

\* advance(): "Open the bottom of the region", the call of the variant's
\* openBottom.
openBottom(t, mark) ==
  IF RequireIntervals THEN IntervalPressure_openBottom(t, mark)
  ELSE RegionPressure_openBottom(t, mark)

\* The marks of the block: slot indexes, or positions.
Marks ==
  IF RequireIntervals
  THEN {getMBBEndIdx} \cup {getRegSlot(i) : i \in {k \in 1..Len(MBB) : hasIndex(k)}}
  ELSE 1..end

\* C7: openBottom(mark) on a bottom boundary that is at or after mark
\* changes nothing; on one that is before mark it makes the bottom boundary
\* null and empties the live-out list, and leaves the live-in list, the top
\* boundary and the maximum pressure as they are.
C7_OpenBottomFrame ==
  (~aborted /\ Bottom # Null) =>
    \A mark \in Marks :
      LET r == openBottom(Tracker, mark)
      IN IF Bottom >= mark THEN r = Tracker
         ELSE /\ r.Bottom = Null
              /\ r.LiveOutRegs = <<>>
              /\ r.LiveInRegs = LiveInRegs
              /\ r.Top = Top
              /\ r.MaxSetPressure = MaxSetPressure

\* The maximum vector raised by the class weight of Reg in every pressure
\* set of its class.
bumped(MaxSet, Reg) ==
  [p \in PSets |->
     IF p \in getRegClassPressureSets(getRegClass(Reg))
     THEN MaxSet[p] + getRegClassWeight(getRegClass(Reg)) ELSE MaxSet[p]]

\* What C8 says of one use: pre and post are the tracker before and after
\* advance() processes the use of Reg.
liveInDiscovered(pre, post, Reg, isVReg) ==
  IF ~findReg(Reg, isVReg, pre.LiveInRegs)
  THEN /\ post.LiveInRegs = Append(pre.LiveInRegs, Reg)
       /\ post.MaxSetPressure = bumped(pre.MaxSetPressure, Reg)
  ELSE /\ post.LiveInRegs = pre.LiveInRegs
       /\ post.MaxSetPressure = pre.MaxSetPressure

\* advance() treats the use of the virtual register Reg at slot SlotIdx as
\* a use that ends its liveness: always without live intervals, and with
\* them when the interval is killed there.
endsLiveness(Reg, SlotIdx) == ~RequireIntervals \/ killedAt(Reg, SlotIdx)

\* C8: when advance() processes a use of a register that is not live (no
\* overlapping register in LivePhysRegs; not in LiveVirtRegs) and the
\* live-in list holds no entry for it (by alias, by identity), it appends
\* the register to the live-in list and raises the maximum pressure by the
\* class weight in every pressure set of the class; when the list holds an
\* entry, list and maximum pressure stay.  (A virtual use counts when
\* advance() takes it to end the register's liveness.)
C8_LiveInDiscovery ==
  (~aborted /\ CurrPos # end) =>
    \A junk \in Junk :
      LET b == advanceBoundary(Tracker, junk)
          opers == collectOperands(MBB[CurrPos])
          SlotIdx == getInstructionIndex(CurrPos, junk)
          v == advancePhysUses(b, opers.Phys.Uses)
      IN /\ \A k \in 1..Len(opers.Phys.Uses) :
              LET Reg == opers.Phys.Uses[k]
                  pre == advancePhysUses(b, SubSeq(opers.Phys.Uses, 1, k - 1))
                  post == advancePhysUse(pre, Reg)
              IN (~pre.aborted /\ ~post.aborted
                  /\ ~hasRegAlias(Reg, pre.LivePhysRegs))
                 => liveInDiscovered(pre, post, Reg, FALSE)
         /\ \A k \in 1..Len(opers.Virt.Uses) :
              LET Reg == opers.Virt.Uses[k]
                  pre == advanceVirtUses(v, SubSeq(opers.Virt.Uses, 1, k - 1), SlotIdx)
                  post == advanceVirtUse(pre, Reg, SlotIdx)
              IN (~pre.aborted /\ ~post.aborted /\ Reg \notin pre.LiveVirtRegs
                  /\ endsLiveness(Reg, SlotIdx))
                 => liveInDiscovered(pre, post, Reg, TRUE)

\* What C9 says of one def: pre and post are the tracker before and after
\* recede() processes the live def of Reg.
liveOutDiscovered(pre, post, Reg, isVReg) ==
  /\ ~findReg(Reg, isVReg, pre.LiveOutRegs) =>
       /\ post.LiveOutRegs = Append(pre.LiveOutRegs, Reg)
       /\ post.MaxSetPressure = bumped(pre.MaxSetPressure, Reg)
  /\ post.LivePhysRegs = pre.LivePhysRegs
  /\ post.LiveVirtRegs = pre.LiveVirtRegs
  /\ post.CurrSetPressure = pre.CurrSetPressure

\* C9: when recede() processes a live def of a register that is not in the
\* live set and the live-out list holds no entry for it (by alias, by
\* identity), it appends the register to the live-out list and raises the
\* maximum pressure by the class weight in every pressure set of the
\* class; in every case the def leaves the live sets and the current
\* pressure as they are.
C9_LiveOutDiscovery ==
  (~aborted /\ CurrPos # begin) =>
    \A junk \in Junk :
      LET c == recedeBoundary(Tracker, junk)
      IN (~c.aborted /\ ~MBB[c.CurrPos].isDebugValue) =>
           LET opers == collectOperands(MBB[c.CurrPos])
               b == bumpDeadDefs(recedeOpenTop(c), opers)
               v == recedePhysDefs(b, opers.Phys.Defs)
           IN /\ \A k \in 1..Len(opers.Phys.Defs) :
                   LET Reg == opers.Phys.Defs[k]
                       pre == recedePhysDefs(b, SubSeq(opers.Phys.Defs, 1, k - 1))
                       post == recedePhysDef(pre, Reg)
                   IN (~pre.aborted /\ ~post.aborted
                       /\ Reg \notin pre.LivePhysRegs)
                      => liveOutDiscovered(pre, post, Reg, FALSE)
              /\ \A k \in 1..Len(opers.Virt.Defs) :
                   LET Reg == opers.Virt.Defs[k]
                       pre == recedeVirtDefs(v, SubSeq(opers.Virt.Defs, 1, k - 1))
                       post == recedeVirtDef(pre, Reg)
                   IN (~pre.aborted /\ ~post.aborted
                       /\ Reg \notin pre.LiveVirtRegs)
                      => liveOutDiscovered(pre, post, Reg, TRUE)

\* The instruction without its dead-def operands.
withoutDeadDefs(inst) ==
  [inst EXCEPT !.ops =
     SelectSeq(inst.ops, LAMBDA MO : ~(MO.isReg /\ MO.isDef /\ MO.isDead))]

\* The summed class weights, in pressure set p, of the registers in Regs.
RECURSIVE seqWeight(_, _)
seqWeight(Regs, p) ==
  IF Regs = <<>> THEN 0
  ELSE (IF p \in getRegClassPressureSets(getRegClass(Head(Regs)))
        THEN getRegClassWeight(getRegClass(Head(Regs))) ELSE 0)
       + seqWeight(Tail(Regs), p)

deadWeight(opers, p) == seqWeight(opers.Phys.DeadDefs \o opers.Virt.DeadDefs, p)

\* Two outcomes of a call that differ at most in the maximum pressure.
sameButMax(A, B) ==
  /\ A.aborted = B.aborted
  /\ ~A.aborted => state([A EXCEPT !.MaxSetPressure = B.MaxSetPressure]) = state(B)

\* The maximum pressure of A covers the pressure curr raised by the dead
\* defs of opers.
coversBump(A, curr, opers) ==
  ~A.aborted =>
    \A p \in PSets : UGe(A.MaxSetPressure[p], curr[p] + deadWeight(opers, p))

\* C10: dead defs are net-zero.  advance() and recede() over an instruction
\* leave the tracker (current pressure, live sets and all the rest but the
\* maximum pressure) as they leave it over the instruction without its dead
\* defs; and the maximum pressure is at least the current pressure at the
\* bump plus the summed weights of the dead defs the classifier lists.
C10_DeadDefsNetZero ==
  ~aborted =>
    \A junk \in Junk :
      /\ CurrPos # end =>
           LET b == advanceBoundary(Tracker, junk)
               opers == collectOperands(MBB[CurrPos])
               plain == collectOperands(withoutDeadDefs(MBB[CurrPos]))
               A == advanceInstr(b, junk)
               B == advanceOpers(b, plain, junk)
           IN ~b.aborted =>
                sameButMax(A, B) /\ coversBump(A, B.CurrSetPressure, opers)
      /\ CurrPos # begin =>
           LET c == recedeBoundary(Tracker, junk)
           IN (~c.aborted /\ ~MBB[c.CurrPos].isDebugValue) =>
                LET a == recedeOpenTop(c)
                    opers == collectOperands(MBB[c.CurrPos])
                    plain == collectOperands(withoutDeadDefs(MBB[c.CurrPos]))
                    A == recedeInstr(c)
                    B == recedeOpers(a, plain)
                IN sameButMax(A, B) /\ coversBump(A, a.CurrSetPressure, opers)

\* A call that returned false at the edge of the block: it left the cursor,
\* the live sets and the current pressure of t alone, and the region closed.
edgeCall(t, r) ==
  /\ r.ret = FALSE
  /\ r.CurrPos = t.CurrPos
  /\ r.LivePhysRegs = t.LivePhysRegs
  /\ r.LiveVirtRegs = t.LiveVirtRegs
  /\ r.CurrSetPressure = t.CurrSetPressure
  /\ isTopClosed(r)
  /\ isBottomClosed(r)

\* C11: recede() with the cursor at the block's begin, and advance() with the
\* cursor at the block's end, return false without changing the cursor, the
\* live sets or the current pressure, and leave the region closed:
\* isTopClosed() and isBottomClosed() are both true afterwards.
C11_EdgeCallClosesRegion ==
  ~aborted =>
    \A junk \in Junk :
      /\ CurrPos = begin =>
           LET r == recede(Tracker, junk) IN ~r.aborted => edgeCall(Tracker, r)
      /\ CurrPos = end =>
           LET r == advance(Tracker, junk) IN ~r.aborted => edgeCall(Tracker, r)

\* C12: closeRegion() is idempotent.  Called with both boundaries closed
\* (both hold a mark) it changes nothing; and from any reachable state two
\* calls in a row leave the tracker as one call does.
C12_CloseRegionIdempotent ==
  ~aborted =>
    \A junk \in Junk : \A again \in Junk :
      LET once == closeRegion(Tracker, junk)
          twice == closeRegion(once, again)
      IN /\ (Top # Null /\ Bottom # Null) => state(once) = Tracker
         /\ state(twice) = state(once)

\* C13: from init on, over any sequence of advance(), recede() and close
\* calls, no maximum pressure counter decreases from one step to the next
\* (the counters are unsigned).
C13_MaxNeverDecreases ==
  [][\A p \in PSets : UGe(MaxSetPressure'[p], MaxSetPressure[p])]_vars

\* C13 witness: a traversal reached the block's end with the current
\* pressure back at zero below a maximum of two that an earlier step set.
C13_Witness ==
  /\ ~aborted
  /\ CurrPos = end
  /\ Len(MBB) = 2
  /\ CurrSetPressure[0] = 0
  /\ MaxSetPressure[0] = 2
  /\ LiveInRegs = <<>>

\* ------------------------------------------------- the spec's sample blocks

\* [v1 <- ; v2 <- v1 ; <- v2]
SampleChain == <<MI(<<Def(V1)>>), MI(<<Def(V2), Use(V1)>>), MI(<<Use(V2)>>)>>

\* [v1 <- ; an instruction that mentions no tracked register ; <- v1]
SampleThrough == <<MI(<<Def(V1)>>), MI(<<Imm, Def(RSP)>>), MI(<<Use(V1)>>)>>

\* init() on one of the sample blocks.
InitSample ==
  /\ MBB \in {SampleChain, SampleThrough}
  /\ RequireIntervals \in BOOLEAN
  /\ NDEBUG \in BOOLEAN
  /\ BlockLiveOut = {}
  /\ \E pos \in 1..(Len(MBB) + 1) : CurrPos = skipDebug(MBB, pos)
  /\ CurrSetPressure = [p \in PSets |-> 0]
  /\ MaxSetPressure = [p \in PSets |-> 0]
  /\ LiveInRegs = <<>>
  /\ LiveOutRegs = <<>>
  /\ Top = Null
  /\ Bottom = Null
  /\ LivePhysRegs = {}
  /\ LiveVirtRegs = {}
  /\ aborted = FALSE
  /\ traversal = NoTraversal

SpecSample == InitSample /\ [][Next]_vars

\* advance() called until it returns false (at most n + 1 calls).
RECURSIVE advanceAll(_, _)
advanceAll(t, n) ==
  LET r == advance(t, Null)
  IN IF r.aborted \/ ~r.ret \/ n = 0 THEN r ELSE advanceAll(r, n - 1)

\* recede() called until it returns false (at most n + 1 calls).
RECURSIVE recedeAll(_, _)
recedeAll(t, n) ==
  LET r == recede(t, Null)
  IN IF r.aborted \/ ~r.ret \/ n = 0 THEN r ELSE recedeAll(r, n - 1)

\* The result the sample chain is to give: a maximum of one in pressure
\* set 0, nothing live in, nothing live out.
chainResult(r) ==
  /\ ~r.aborted
  /\ ~r.ret
  /\ r.MaxSetPressure[0] = 1
  /\ r.LiveInRegs = <<>>
  /\ r.LiveOutRegs = <<>>

middleDown == closeRegion(advance(initTracker(2), Null), Null)

\* The same region stepped over backwards: init just below the middle
\* instruction, recede(), closeRegion().
middleUp == closeRegion(recede(initTracker(3), Null), Null)

\* The result holds Reg as live through the region.
liveThrough(r, Reg) ==
  /\ ~r.aborted
  /\ Reg \in Range(r.LiveInRegs)
  /\ Reg \in Range(r.LiveOutRegs)
  /\ r.MaxSetPressure = bumped([p \in PSets |-> 0], Reg)

\* The result holds nothing: both lists empty, the maximum pressure zero.
nothingTracked(r) ==
  /\ ~r.aborted
  /\ r.LiveInRegs = <<>>
  /\ r.LiveOutRegs = <<>>
  /\ r.MaxSetPressure = [p \in PSets |-> 0]
  /\ r.CurrSetPressure = [p \in PSets |-> 0]

\* C15: on the block [v1 <- ; an instruction not mentioning v1 ; <- v1],
\* tracking the middle instruction alone (init at it, one step over it,
\* closeRegion) gives live-in and live-out lists that both hold v1 and a
\* maximum pressure raised by one class weight of v1.
C15_LiveThroughReported ==
  MBB = SampleThrough => liveThrough(middleDown, V1)

\* C15 as amended: tracking the middle instruction alone, by advance() or by
\* recede(), gives empty live-in and live-out lists and a maximum pressure
\* of zero; in the interval variant the region is closed around the middle
\* instruction.
C15_LiveThroughNotSeen ==
  MBB = SampleThrough =>
    /\ nothingTracked(middleDown)
    /\ nothingTracked(middleUp)
    /\ RequireIntervals =>
         /\ middleDown.Top = getRegSlot(2) /\ middleDown.Bottom = getRegSlot(3)
         /\ middleUp.Top = getRegSlot(2) /\ middleUp.Bottom = getRegSlot(3)

\* C15 witness: the interval variant, started at the middle instruction, has
\* advanced over it and closed the region.
C15_Witness ==
  /\ MBB = SampleThrough
  /\ RequireIntervals
  /\ ~aborted
  /\ CurrPos = 3
  /\ Top = getRegSlot(2)
  /\ Bottom = getRegSlot(3)
  /\ LiveInRegs = <<>>
  /\ LiveOutRegs = <<>>
  /\ MaxSetPressure = [p \in PSets |-> 0]

\* ------------------------------------- a traversal and its debug-free twin

\* The longest block the comparison of two traversals is run on.
MaxDebugLen == 3

\* The instructions those blocks are built from.
DebugInstrs == {DbgValue(<<Use(V1)>>), MI(<<Def(V1)>>), MI(<<Use(V1)>>)}

RECURSIVE DebugBlocks(_)
DebugBlocks(n) ==
  IF n = 0 THEN {<<>>}
  ELSE LET S == DebugBlocks(n - 1)
       IN S \cup {Append(s, i) : s \in {x \in S : Len(x) = n - 1}, i \in DebugInstrs}

\* The block with its debug-value instructions removed.
stripDebug(block) == SelectSeq(block, LAMBDA inst : ~inst.isDebugValue)

\* Where position pos of the block lies in the block without debug values.
strippedPos(block, pos) ==
  1 + Cardinality({k \in 1..(pos - 1) : ~block[k].isDebugValue})

\* What the client sees of a call: whether the process died and, if not,
\* the return value, the live sets, the pressure vectors and the two lists.
observed(t) ==
  IF t.aborted THEN [aborted |-> TRUE]
  ELSE [aborted |-> FALSE, ret |-> t.ret,
        LivePhysRegs |-> t.LivePhysRegs, LiveVirtRegs |-> t.LiveVirtRegs,
        CurrSetPressure |-> t.CurrSetPressure, MaxSetPressure |-> t.MaxSetPressure,
        LiveInRegs |-> t.LiveInRegs, LiveOutRegs |-> t.LiveOutRegs]

\* init() for a client that will traverse the block in one direction and
\* then traverse the block without its debug values the same way.
InitDebug ==
  /\ MBB \in DebugBlocks(MaxDebugLen)
  /\ RequireIntervals \in BOOLEAN
  /\ NDEBUG \in BOOLEAN
  /\ BlockLiveOut \in (IF RequireIntervals THEN LiveOutChoices ELSE {{}})
  /\ \E pos \in 1..(Len(MBB) + 1) : \E dir \in {"advance", "recede"} :
       /\ CurrPos = skipDebug(MBB, pos)
       /\ traversal = [phase |-> "first", dir |-> dir, start |-> pos,
                       first |-> <<>>, second |-> <<>>]
  /\ CurrSetPressure = [p \in PSets |-> 0]
  /\ MaxSetPressure = [p \in PSets |-> 0]
  /\ LiveInRegs = <<>>
  /\ LiveOutRegs = <<>>
  /\ Top = Null
  /\ Bottom = Null
  /\ LivePhysRegs = {}
  /\ LiveVirtRegs = {}
  /\ aborted = FALSE

\* The tracker after the traversal's next call.
traversalCall(junk) ==
  IF traversal.dir = "advance" THEN advance(Tracker, junk) ELSE recede(Tracker, junk)

\* One call of the first traversal: two more calls than the block has
\* instructions.
TraverseBlock ==
  /\ traversal.phase = "first"
  /\ Len(traversal.first) < Len(MBB) + 2
  /\ \E junk \in Junk :
       LET r == traversalCall(junk)
       IN /\ Assign(r)
          /\ traversal' = [traversal EXCEPT !.first = Append(@, observed(r))]
  /\ UNCHANGED MBB

\* The client removes the debug values and calls init() at the same place.
RemoveDebugValues ==
  /\ traversal.phase = "first"
  /\ Len(traversal.first) = Len(MBB) + 2
  /\ MBB' = stripDebug(MBB)
  /\ Assign([initTracker(begin) EXCEPT !.CurrPos = strippedPos(MBB, traversal.start)])
  /\ traversal' = [traversal EXCEPT !.phase = "second"]

\* One call of the second traversal, as many calls as the first made.
TraverseStripped ==
  /\ traversal.phase = "second"
  /\ Len(traversal.second) < Len(traversal.first)
  /\ \E junk \in Junk :
       LET r == traversalCall(junk)
       IN /\ Assign(r)
          /\ traversal' = [traversal EXCEPT !.second = Append(@, observed(r))]
  /\ UNCHANGED MBB

NextDebug == TraverseBlock \/ RemoveDebugValues \/ TraverseStripped

SpecDebug == InitDebug /\ [][NextDebug]_vars

\* C16: debug values are transparent.  A traversal by advance() alone, or by
\* recede() alone, shows the client call by call what the same traversal of
\* the block without its debug values shows (return value, live sets,
\* current and maximum pressure, live-in and live-out lists); and advance()
\* never classifies the operands of a debug value.
C16_DebugValuesTransparent ==
  /\ traversal.phase = "second" =>
       \A k \in 1..Len(traversal.second) : traversal.second[k] = traversal.first[k]
  /\ (traversal.phase = "first" /\ traversal.dir = "advance"
      /\ ~aborted /\ CurrPos # end) => ~MBB[CurrPos].isDebugValue

\* ------------------------------------------------- the classifier by itself

\* The most operands of an instruction handed to the classifier.
MaxOps == 3

\* The registers and the operands those instructions are built from.
ClassifiedRegs == {NoReg, RAX, EAX, RSP, V1}

ClassifiedOperands ==
  {Imm} \cup {Use(r) : r \in ClassifiedRegs} \cup {Def(r) : r \in ClassifiedRegs}
        \cup {DeadDef(r) : r \in ClassifiedRegs} \cup {UseDef(r) : r \in ClassifiedRegs}

RECURSIVE OperandLists(_)
OperandLists(n) ==
  IF n = 0 THEN {<<>>}
  ELSE LET S == OperandLists(n - 1)
       IN S \cup {Append(s, o) : s \in {x \in S : Len(x) = n - 1},
                                 o \in ClassifiedOperands}

\* A tracker standing at an instruction whose operands nobody has
\* classified yet.
InitClassify ==
  /\ MBB \in {<<MI(ops)>> : ops \in OperandLists(MaxOps)}
  /\ RequireIntervals = FALSE
  /\ NDEBUG = FALSE
  /\ BlockLiveOut = {}
  /\ CurrPos = begin
  /\ CurrSetPressure = [p \in PSets |-> 0]
  /\ MaxSetPressure = [p \in PSets |-> 0]
  /\ LiveInRegs = <<>>
  /\ LiveOutRegs = <<>>
  /\ Top = Null
  /\ Bottom = Null
  /\ LivePhysRegs = {}
  /\ LiveVirtRegs = {}
  /\ aborted = FALSE
  /\ traversal = [phase |-> "unclassified"]

\* collectOperands(CurrPos, PhysRegOpers, VirtRegOpers, TRI, RCI)
Classify ==
  /\ traversal.phase = "unclassified"
  /\ traversal' = [phase |-> "classified", opers |-> collectOperands(MBB[CurrPos])]
  /\ UNCHANGED <<MBB, RequireIntervals, NDEBUG, BlockLiveOut, CurrPos,
                 CurrSetPressure, MaxSetPressure, LiveInRegs, LiveOutRegs, Top,
                 Bottom, LivePhysRegs, LiveVirtRegs, aborted>>

SpecClassify == InitClassify /\ [][Classify]_vars

\* No two entries of the list are the same register, nor overlap.
aliasFree(Regs) ==
  \A i, j \in 1..Len(Regs) : i # j => Regs[j] \notin getOverlaps(Regs[i])

\* The classifier tracks the operand: a register operand, not register
\* zero, virtual or allocatable.
tracked(MO) ==
  MO.isReg /\ MO.reg # NoReg /\ (isVirtualRegister(MO.reg) \/ isAllocatable(MO.reg))

\* The list holds the register, or for a physical register one overlapping it.
listed(Reg, Regs) == \E a \in getOverlaps(Reg) : a \in Range(Regs)

\* C17: for every instruction the classifier's Uses, Defs and DeadDefs lists
\* are duplicate-free (by identity for virtual registers, by alias for
\* physical ones); they hold only registers of operands the classifier
\* tracks (no non-register operand, not register zero, no non-allocatable
\* physical register), each in the list its operand's flags call for; every
\* tracked operand is listed, one that reads and writes both in Uses and in
\* a def list; and no physical register in DeadDefs overlaps one in Defs.
C17_ClassifierLists ==
  traversal.phase = "classified" =>
    LET ops == MBB[CurrPos].ops
        P == traversal.opers.Phys
        V == traversal.opers.Virt
        from(Reg, isVReg, flag(_)) ==
          \E k \in 1..Len(ops) :
            /\ tracked(ops[k]) /\ ops[k].reg = Reg /\ flag(ops[k])
            /\ isVirtualRegister(Reg) = isVReg
        isUse(MO) == MO.readsReg
        isLiveDef(MO) == MO.isDef /\ ~MO.isDead
        isDeadDef(MO) == MO.isDef /\ MO.isDead
    IN /\ aliasFree(P.Uses) /\ aliasFree(P.Defs) /\ aliasFree(P.DeadDefs)
       /\ aliasFree(V.Uses) /\ aliasFree(V.Defs) /\ aliasFree(V.DeadDefs)
       /\ \A r \in Range(P.Uses) : from(r, FALSE, isUse)
       /\ \A r \in Range(P.Defs) : from(r, FALSE, isLiveDef)
       /\ \A r \in Range(P.DeadDefs) : from(r, FALSE, isDeadDef)
       /\ \A r \in Range(V.Uses) : from(r, TRUE, isUse)
       /\ \A r \in Range(V.Defs) : from(r, TRUE, isLiveDef)
       /\ \A r \in Range(V.DeadDefs) : from(r, TRUE, isDeadDef)
       /\ \A k \in 1..Len(ops) :
            tracked(ops[k]) =>
              LET L == IF isVirtualRegister(ops[k].reg) THEN V ELSE P
              IN /\ isUse(ops[k]) => listed(ops[k].reg, L.Uses)
                 /\ isLiveDef(ops[k]) => listed(ops[k].reg, L.Defs)
                 /\ isDeadDef(ops[k]) =>
                      \/ listed(ops[k].reg, L.DeadDefs)
                      \/ ~isVirtualRegister(ops[k].reg) /\ listed(ops[k].reg, L.Defs)
       /\ \A d \in Range(P.DeadDefs) : ~listed(d, P.Defs)

\* C17 witness: the classifier has run over an instruction that reads and
\* writes RAX, has a dead def of EAX (pruned, as RAX is defined) and a use
\* of the non-allocatable RSP (ignored).
C17_Witness ==
  /\ traversal.phase = "classified"
  /\ MBB[CurrPos].ops = <<UseDef(RAX), DeadDef(EAX), Use(RSP)>>
  /\ traversal.opers.Phys = [Uses |-> <<RAX>>, Defs |-> <<RAX>>, DeadDefs |-> <<>>]
  /\ traversal.opers.Virt = RegisterOperands

\* ------------------------------------------------- C18: pressure underflow

\* A client that only walks: from init, advance() and recede() in any order.
NextWalk == Advance \/ Recede

SpecWalk == Init /\ [][NextWalk]_vars

\* The block satisfies the single-use assumption: an allocatable physical
\* register is read by at most one instruction of the block.
singleUse(block) ==
  \A Reg \in {r \in PhysRegs : isAllocatable(r)} :
    Cardinality({i \in 1..Len(block) : ~block[i].isDebugValue /\ reads(block[i], Reg)}) <= 1

\* C18: over a block that satisfies the single-use assumption for
\* allocatable physical registers, in every state reached from init by
\* advance() and recede() calls, no call decreases a counter by a class
\* weight that the counter does not hold, also when a physical use is
\* killed through an overlapping live register of another class.
C18_NoPressureUnderflow ==
  (singleUse(MBB) /\ ~aborted) =>
    \A junk \in Junk :
      /\ ~advance(Tracker, junk).underflow
      /\ ~recede(Tracker, junk).underflow

\* ------------------------------------------ C19: consistency at close time

\* A client that walks and closes the region, never a single boundary.
NextRegion == Advance \/ Recede \/ CloseRegion

SpecRegion == Init /\ [][NextRegion]_vars

\* C19: in every state reached from init by advance(), recede() and
\* closeRegion() calls, a call that runs closeTop() finds the live-in list
\* empty and a call that runs closeBottom() finds the live-out list empty.
C19_CloseFindsListsEmpty ==
  ~aborted =>
    \A junk \in Junk :
      /\ ~advance(Tracker, junk).inconsistent
      /\ ~recede(Tracker, junk).inconsistent
      /\ ~closeRegion(Tracker, junk).inconsistent

\* ----------------------------------------------------- C20: termination

\* advance() called again and again returns false within n + 1 calls.
RECURSIVE advanceStops(_, _)
advanceStops(t, n) ==
  \A junk \in JunkIdx :
    LET r == advance(t, junk)
    IN ~r.aborted /\ (r.ret => n > 0 /\ advanceStops(r, n - 1))

\* recede() called again and again returns false within n + 1 calls.
RECURSIVE recedeStops(_, _)
recedeStops(t, n) ==
  \A junk \in JunkIdx :
    LET r == recede(t, junk)
    IN ~r.aborted /\ (r.ret => n > 0 /\ recedeStops(r, n - 1))

\* C20: an advance() that returns true has moved the cursor strictly
\* forward, to the next instruction that is not a debug value or to the
\* block's end; a recede() that returns true has moved it strictly
\* backward, to an instruction that is not a debug value; and advance()
\* alone, or recede() alone, called again and again returns false after at
\* most one more call than the block has instructions.
C20_TraversalTerminates ==
  ~aborted =>
    /\ \A junk \in Junk :
         LET a == advance(Tracker, junk)
             r == recede(Tracker, junk)
         IN /\ (~a.aborted /\ a.ret) =>
                 /\ a.CurrPos > CurrPos
                 /\ a.CurrPos = skipDebug(MBB, CurrPos + 1)
            /\ (~r.aborted /\ r.ret) =>
                 /\ r.CurrPos < CurrPos
                 /\ ~MBB[r.CurrPos].isDebugValue
                 /\ \A k \in (r.CurrPos + 1)..(CurrPos - 1) : MBB[k].isDebugValue
    /\ advanceStops(Tracker, Len(MBB))
    /\ recedeStops(Tracker, Len(MBB))

====
